---- MODULE Spec2Model ----
(***************************************************************************)
(* Model of the multi-account throttled job runner of Mailpot:            *)
(* src/src/contexts/JobContext.tsx (JobProvider), with the derived        *)
(* queries of src/src/pages/SingleImportPage.tsx (calculateElapsedTime)   *)
(* and src/src/components/AccountDropdown.tsx (getJobStatusText).         *)
(*                                                                         *)
(* Every setJobs updater is one atomic step on the job map.  JavaScript   *)
(* object identity is kept where the code depends on it: the tick mutates *)
(* the Job objects of the map in place, every other updater installs a    *)
(* copy, and processQueueItem keeps the Job object it was called with and *)
(* reads job.currentIndex from it after its await.                        *)
(*                                                                         *)
(* The account store of src/backend/server.js is modelled beside it: the  *)
(* accounts file and the re-validation requests whose remote check has    *)
(* not returned.                                                          *)
(***************************************************************************)
EXTENDS Integers, Sequences, FiniteSets, TLC

VARIABLES jobs, inflight, now, starts, hist, crashed,
          accounts, validating, made

vars == <<jobs, inflight, now, starts, hist, crashed, accounts, validating, made>>

(* the state of the backend's account store *)
backend == <<accounts, validating, made>>

----------------------------------------------------------------------------
(* Bounds of the exploration: the clock's last value in seconds, and the  *)
(* number of jobs startJob creates in each specification.                 *)

MaxTime == 2
MaxStarts == 1
ClockMaxStarts == 1
ReplaceMaxStarts == 2
RestartMaxStarts == 2
DuoMaxStarts == 2
MaxAccounts == 2
MaxRequests == 2

Accounts == {"A", "B"}

(* delay and countdown are JavaScript numbers, which the page does not    *)
(* round (setDelayInput(Math.max(0, Number(e.target.value)))): the model  *)
(* keeps them in halves of a second, so that 1 second is HalvesPerSecond  *)
HalvesPerSecond == 2

(* delays of 0 and 1 second *)
Delays == {0, HalvesPerSecond}

(* delays of 0.5 and 1.5 seconds *)
FractionalDelays == {1, 3}

(* Date.now() counts milliseconds; the model's clock moves in whole seconds *)
MsPerSecond == 1000

(* null, and every other falsy timestamp: Date.now() is never 0 *)
Null == 0

NoJob == [absent |-> TRUE]

(* Raw texts handed to startJob, as sequences of characters *)
RawInputs ==
  { <<"a">>,
    <<" ", "a", ";", "\n", "b", " ">>,
    <<" ", ",", ",", " ", "\n">> }

Statuses == {"success", "error"}

----------------------------------------------------------------------------
(* startJob's parsing: emails.split(/[\n,;]+/).map(e => e.trim()).filter(Boolean) *)

IsSeparator(c) == c \in {"\n", ",", ";"}

IsSpace(c) == c \in {" ", "\t"}

RECURSIVE TrimLeft(_)
TrimLeft(s) ==
  IF s = <<>> THEN <<>>
  ELSE IF IsSpace(Head(s)) THEN TrimLeft(Tail(s)) ELSE s

RECURSIVE TrimRight(_)
TrimRight(s) ==
  IF s = <<>> THEN <<>>
  ELSE IF IsSpace(s[Len(s)]) THEN TrimRight(SubSeq(s, 1, Len(s) - 1)) ELSE s

Trim(s) == TrimRight(TrimLeft(s))

(* split on one or more separators: the pieces between maximal runs *)
RECURSIVE SplitPieces(_, _, _)
SplitPieces(s, cur, inSep) ==
  IF s = <<>> THEN <<cur>>
  ELSE IF IsSeparator(Head(s))
       THEN IF inSep THEN SplitPieces(Tail(s), cur, TRUE)
            ELSE <<cur>> \o SplitPieces(Tail(s), <<>>, TRUE)
       ELSE SplitPieces(Tail(s), Append(cur, Head(s)), FALSE)

(* variant: startJob without filter(Boolean) *)
DropEmpty_KeepAll(ps) == ps

RECURSIVE DropEmpty(_)
DropEmpty(ps) ==
  IF ps = <<>> THEN <<>>
  ELSE IF Head(ps) = <<>> THEN DropEmpty(Tail(ps))
       ELSE <<Head(ps)>> \o DropEmpty(Tail(ps))

SplitEmails(raw) ==
  LET pieces == SplitPieces(raw, <<>>, FALSE)
  IN DropEmpty([i \in 1..Len(pieces) |-> Trim(pieces[i])])

(* the emailList startJob computes for each of the raw texts *)
EmailLists == [raw \in RawInputs |-> SplitEmails(raw)]

----------------------------------------------------------------------------
(* The job map and its updaters *)

HasJob(m, a) == m[a] # NoJob

(* variant: a fresh job waits its delay before the first submission *)
NewJob_DelayFirst(a, emailList, delay, t) ==
  [ id |-> a,
    emailList |-> emailList,
    delay |-> delay,
    results |-> <<>>,
    currentIndex |-> 0,
    isRunning |-> TRUE,
    isPaused |-> FALSE,
    countdown |-> delay,
    startTime |-> t,
    endTime |-> Null,
    pauseTime |-> Null,
    totalPausedTime |-> 0 ]

(* name, apiKey and tagId are handed to the gateway and never read by the *)
(* runner; they are left out of the record                                *)
NewJob(a, emailList, delay, t) ==
  [ id |-> a,
    emailList |-> emailList,
    delay |-> delay,
    results |-> <<>>,
    currentIndex |-> 0,
    isRunning |-> TRUE,
    isPaused |-> FALSE,
    countdown |-> 0,
    startTime |-> t,
    endTime |-> Null,
    pauseTime |-> Null,
    totalPausedTime |-> 0 ]

(* variant: the tick steps a paused job *)
Stepped_WhilePaused(job) == job.isRunning

(* the tick's step of one job (forEach body) *)
Stepped(job) == job.isRunning /\ ~job.isPaused

Dispatches(job) ==
  Stepped(job) /\ job.countdown = 0 /\ job.currentIndex < Len(job.emailList)

(* variant: the tick that dispatches the last address also finishes the job *)
StepJob_FinishOnLastDispatch(job, t) ==
  IF ~Stepped(job) THEN job
  ELSE IF job.countdown > 0 THEN [job EXCEPT !.countdown = @ - HalvesPerSecond]
  ELSE IF job.currentIndex + 1 < Len(job.emailList)
       THEN [job EXCEPT !.currentIndex = @ + 1, !.countdown = job.delay]
       ELSE [job EXCEPT !.currentIndex = Len(job.emailList),
                        !.isRunning = FALSE, !.endTime = t]

(* variant: the finishing tick rewinds the cursor *)
StepJob_Rewinds(job, t) ==
  IF ~Stepped(job) THEN job
  ELSE IF job.countdown > 0 THEN [job EXCEPT !.countdown = @ - HalvesPerSecond]
  ELSE IF job.currentIndex < Len(job.emailList)
       THEN [job EXCEPT !.currentIndex = @ + 1, !.countdown = job.delay]
       ELSE [job EXCEPT !.isRunning = FALSE, !.endTime = t, !.currentIndex = 0]

(* variant: the tick advances the cursor once more at the end of the queue *)
StepJob_PastTheEnd(job, t) ==
  IF ~Stepped(job) THEN job
  ELSE IF job.countdown > 0 THEN [job EXCEPT !.countdown = @ - HalvesPerSecond]
  ELSE IF job.currentIndex <= Len(job.emailList)
       THEN [job EXCEPT !.currentIndex = @ + 1, !.countdown = job.delay]
       ELSE [job EXCEPT !.isRunning = FALSE, !.endTime = t]

StepJob(job, t) ==
  IF ~Stepped(job) THEN job
  ELSE IF job.countdown > 0 THEN [job EXCEPT !.countdown = @ - HalvesPerSecond]
  ELSE IF job.currentIndex < Len(job.emailList)
       THEN [job EXCEPT !.currentIndex = @ + 1, !.countdown = job.delay]
       ELSE [job EXCEPT !.isRunning = FALSE, !.endTime = t]

(* variant: one pass steps account A's job only *)
TickJobs_FirstOnly(prev, t) ==
  [a \in Accounts |-> IF HasJob(prev, a)
                       THEN IF a = "A" THEN StepJob(prev[a], t) ELSE prev[a]
                       ELSE NoJob]

TickJobs(prev, t) ==
  [a \in Accounts |-> IF HasJob(prev, a) THEN StepJob(prev[a], t) ELSE NoJob]

(* variant: pauseJob without its early return for a paused job *)
PauseApplies_Always(job) == TRUE

PauseApplies(job) == ~job.isPaused

PausedJob(job, t) == [job EXCEPT !.isPaused = TRUE, !.pauseTime = t]

ResumeApplies(job) == job.isPaused /\ job.pauseTime # Null

(* variant: resumeJob leaves pauseTime as it was *)
ResumedJob_KeepsPauseTime(job, t) ==
  [job EXCEPT !.isPaused = FALSE,
              !.totalPausedTime = @ + (t - job.pauseTime)]

(* variant: resumeJob measures the pause from the start of the job *)
ResumedJob_SinceStart(job, t) ==
  [job EXCEPT !.isPaused = FALSE,
              !.pauseTime = Null,
              !.totalPausedTime = @ + (t - job.startTime)]

ResumedJob(job, t) ==
  [job EXCEPT !.isPaused = FALSE,
              !.pauseTime = Null,
              !.totalPausedTime = @ + (t - job.pauseTime)]

(* variant: stopJob folds the open pause but leaves the job paused *)
StoppedJob_StillPaused(job, t) ==
  LET total == IF job.isPaused /\ job.pauseTime # Null
               THEN job.totalPausedTime + (t - job.pauseTime)
               ELSE job.totalPausedTime
  IN [job EXCEPT !.isRunning = FALSE,
                 !.endTime = t,
                 !.totalPausedTime = total]

StoppedJob(job, t) ==
  LET total == IF job.isPaused /\ job.pauseTime # Null
               THEN job.totalPausedTime + (t - job.pauseTime)
               ELSE job.totalPausedTime
  IN [job EXCEPT !.isRunning = FALSE,
                 !.isPaused = FALSE,
                 !.endTime = t,
                 !.pauseTime = Null,
                 !.totalPausedTime = total]

(* variant: a record arriving for a job that no longer runs is dropped *)
AppendedJob_OnlyWhileRunning(job, r) ==
  IF job.isRunning THEN [job EXCEPT !.results = <<r>> \o @] ELSE job

AppendedJob(job, r) == [job EXCEPT !.results = <<r>> \o @]

----------------------------------------------------------------------------
(* processQueueItem: the part before the await captures the address and   *)
(* the Job object; the part after it builds the record from the object.   *)
(* live: the captured object is still the one in the map (the tick keeps  *)
(* mutating it); otherwise frozenIdx is the currentIndex it was left with.*)
(* didx, dgen and dq record the dispatch (queue position, generation and  *)
(* queue of the dispatching job).                                         *)
(* The tag request that follows a created contact only delays the record  *)
(* and adds to its details; a failed tag request leaves status success.   *)

(* variant: the tick advances the cursor before it calls processQueueItem *)
Submission_AfterAdvance(a, job, gen) ==
  [ acct |-> a,
    email |-> IF job.currentIndex + 2 <= Len(job.emailList)
              THEN job.emailList[job.currentIndex + 2] ELSE <<>>,
    didx |-> job.currentIndex + 1,
    dgen |-> gen,
    dq |-> job.emailList,
    live |-> TRUE,
    frozenIdx |-> 0 ]

Submission(a, job, gen) ==
  [ acct |-> a,
    email |-> job.emailList[job.currentIndex + 1],
    didx |-> job.currentIndex,
    dgen |-> gen,
    dq |-> job.emailList,
    live |-> TRUE,
    frozenIdx |-> 0 ]

CapturedIndex(s, m) == IF s.live THEN m[s.acct].currentIndex ELSE s.frozenIdx

(* variant: the address is read from the Job object after the await, like *)
(* the sequence number; past the end of the list it is undefined          *)
NewResult_AddressAtSettle(s, m, status) ==
  [ id |-> CapturedIndex(s, m) + 1,
    email |-> IF CapturedIndex(s, m) + 1 <= Len(s.dq)
              THEN s.dq[CapturedIndex(s, m) + 1] ELSE <<>>,
    status |-> status,
    didx |-> s.didx,
    dgen |-> s.dgen,
    dq |-> s.dq ]

NewResult(s, m, status) ==
  [ id |-> CapturedIndex(s, m) + 1,
    email |-> s.email,
    status |-> status,
    didx |-> s.didx,
    dgen |-> s.dgen,
    dq |-> s.dq ]

(* the map entry of account a is replaced by another object (or removed) *)
Detach(fl, m, a) ==
  { IF s.acct = a /\ s.live
    THEN [s EXCEPT !.live = FALSE, !.frozenIdx = m[a].currentIndex]
    ELSE s : s \in fl }

----------------------------------------------------------------------------
(* Derived queries of the presentation *)

Max(x, y) == IF x >= y THEN x ELSE y

(* calculateElapsedTime, for the job shown and Date.now() = t, in seconds *)
calculateElapsedTime(job, t) ==
  IF job.startTime = Null THEN 0
  ELSE LET endTime == IF job.endTime # Null THEN job.endTime
                      ELSE IF job.isPaused THEN job.pauseTime ELSE t
       IN IF endTime = Null THEN 0
          ELSE Max(0, (endTime - job.startTime - job.totalPausedTime) \div MsPerSecond)

(* getJobStatusText: the label, "" for none *)
getJobStatusText(job) ==
  LET total == Len(job.emailList) IN
  IF job.isRunning /\ job.isPaused THEN "Paused"
  ELSE IF job.isRunning THEN "Processing"
  ELSE IF ~job.isRunning /\ job.currentIndex > 0 /\ job.currentIndex >= total THEN "Finished"
  ELSE IF ~job.isRunning /\ job.currentIndex > 0 THEN "Stopped"
  ELSE ""

(* the bulk-import page's progress line: the spans shown after "Progress: *)
(* cursor / total", in order; "Next in" stands for "Next in: <countdown>s" *)
progressStatusLine(job) ==
  (IF job.isRunning /\ ~job.isPaused THEN <<"Next in">> ELSE <<>>)
  \o (IF job.isPaused THEN <<"Paused">> ELSE <<>>)
  \o (IF ~job.isRunning /\ job.currentIndex > 0 THEN <<"Finished">> ELSE <<>>)

----------------------------------------------------------------------------
(* History of each account's current job, kept beside the program state:  *)
(* gen = number of the start that created it, steps = ticks that stepped  *)
(* it, active = seconds it spent running and not paused, touched = the    *)
(* strongest control that took effect on it (paused < stopped < cleared), *)
(* late = a record of its own was appended after a stop took effect,      *)
(* sent = the calls of processQueueItem for it, in order: the cursor at   *)
(* the call and the address the call read, idle = the control whose       *)
(* updater returned the map it was given, or the tick that skipped the    *)
(* job, if that was the last thing done to the account, frozen = cursor   *)
(* and countdown when pauseJob took effect, until a resume or stop takes  *)
(* effect, waited = the ticks that stepped it without a dispatch since    *)
(* its last dispatch, pausedAt = the clock when pauseJob took effect on it   *)
(* while it was running, until a resume or stop takes effect, hot = how   *)
(* the job stands to the last call of processQueueItem for the job it     *)
(* replaced: "stopped" = the latest pass of the interval made a call for  *)
(* this job, which was stopped since, "armed" = the job replaced one for   *)
(* which the latest pass made a call, "fired" = the job was armed and the *)
(* latest pass made its first call, "no" otherwise (always once a later   *)
(* pass has run).  hot is kept for jobs with a positive delay only: with  *)
(* a delay of 0 no tick has to lie between two dispatches.                *)

NoHist ==
  [gen |-> 0, steps |-> 0, active |-> 0, touched |-> "no", late |-> FALSE,
   sent |-> <<>>, idle |-> "no", pausedAt |-> Null, frozen |-> <<>>,
   waited |-> 0, hot |-> "no"]

(* the latest pass of the interval called processQueueItem for the job:   *)
(* the countdown is as that call's pass reset it, and every pass stepped  *)
(* the job (no control ever took effect on it, no pass finished it)       *)
JustDispatched(job, h) ==
  /\ job.delay > 0
  /\ job.isRunning
  /\ h.touched = "no"
  /\ h.sent # <<>>
  /\ job.countdown = job.delay

(* no pass of the interval has run since a call for the account *)
Recent(job, h) == h.hot = "stopped" \/ JustDispatched(job, h)

Init ==
  /\ jobs = [a \in Accounts |-> NoJob]
  /\ inflight = {}
  /\ now = MsPerSecond
  /\ starts = 0
  /\ hist = [a \in Accounts |-> NoHist]
  /\ crashed = FALSE
  /\ accounts = {}
  /\ validating = {}
  /\ made = 0

(* the clock advances by one second, up to maxTime seconds *)
Advance(maxTime) ==
  /\ now < maxTime * MsPerSecond
  /\ now' = now + MsPerSecond
  /\ hist' = [a \in Accounts |->
                IF ~crashed /\ HasJob(jobs, a) /\ Stepped(jobs[a])
                THEN [hist[a] EXCEPT !.active = @ + 1] ELSE hist[a]]
  /\ UNCHANGED <<jobs, inflight, starts, crashed>>
  /\ UNCHANGED backend

(* the submissions one pass of the interval callback starts for account a *)
Dispatched(a) ==
  IF HasJob(jobs, a) /\ Dispatches(jobs[a])
  THEN {Submission(a, jobs[a], hist[a].gen)} ELSE {}

(* setInterval callback: one pass over all jobs *)
Tick ==
  /\ ~crashed
  /\ jobs' = TickJobs(jobs, now)
  /\ inflight' = inflight \cup UNION {Dispatched(a) : a \in Accounts}
  /\ hist' = [a \in Accounts |->
                IF HasJob(jobs, a) /\ Stepped(jobs[a])
                THEN [hist[a] EXCEPT
                        !.steps = @ + 1,
                        !.idle = "no",
                        !.hot = IF @ = "armed" /\ Dispatches(jobs[a]) THEN "fired" ELSE "no",
                        !.waited = IF Dispatches(jobs[a]) THEN 0
                                   ELSE IF jobs[a].currentIndex < Len(jobs[a].emailList)
                                        THEN @ + 1 ELSE @,
                        !.sent = IF Dispatches(jobs[a])
                                 THEN Append(@, [pos |-> jobs[a].currentIndex,
                                                 email |-> Submission(a, jobs[a], 0).email])
                                 ELSE @]
                ELSE IF HasJob(jobs, a) THEN [hist[a] EXCEPT !.idle = "tick", !.hot = "no"]
                ELSE hist[a]]
  /\ UNCHANGED <<now, starts, crashed>>
  /\ UNCHANGED backend

(* variant: the new job takes over the countdown of the job it replaces *)
StartJob_CarriesCountdown(a, raw, delay, maxStarts) ==
  /\ ~crashed
  /\ LET emailList == EmailLists[raw] IN
       IF Len(emailList) = 0
       THEN /\ hist' = [hist EXCEPT ![a].idle = "start"]
            /\ UNCHANGED <<jobs, inflight, starts>>
       ELSE /\ starts < maxStarts
            /\ jobs' = [jobs EXCEPT ![a] =
                        [NewJob(a, emailList, delay, now) EXCEPT
                           !.countdown = IF HasJob(jobs, a) THEN jobs[a].countdown ELSE @]]
            /\ inflight' = IF HasJob(jobs, a) THEN Detach(inflight, jobs, a) ELSE inflight
            /\ hist' = [hist EXCEPT ![a] =
                        [NoHist EXCEPT !.gen = starts + 1,
                                       !.hot = IF /\ delay > 0
                                                  /\ HasJob(jobs, a)
                                                  /\ Recent(jobs[a], hist[a])
                                               THEN "armed" ELSE "no"]]
            /\ starts' = starts + 1
  /\ UNCHANGED <<now, crashed>>
  /\ UNCHANGED backend

StartJob(a, raw, delay, maxStarts) ==
  /\ ~crashed
  /\ LET emailList == EmailLists[raw] IN
       IF Len(emailList) = 0
       THEN /\ hist' = [hist EXCEPT ![a].idle = "start"]
            /\ UNCHANGED <<jobs, inflight, starts>>
       ELSE /\ starts < maxStarts
            /\ jobs' = [jobs EXCEPT ![a] = NewJob(a, emailList, delay, now)]
            /\ inflight' = IF HasJob(jobs, a) THEN Detach(inflight, jobs, a) ELSE inflight
            /\ hist' = [hist EXCEPT ![a] =
                        [NoHist EXCEPT !.gen = starts + 1,
                                       !.hot = IF /\ delay > 0
                                                  /\ HasJob(jobs, a)
                                                  /\ Recent(jobs[a], hist[a])
                                               THEN "armed" ELSE "no"]]
            /\ starts' = starts + 1
  /\ UNCHANGED <<now, crashed>>
  /\ UNCHANGED backend

PauseJob(a) ==
  /\ ~crashed
  /\ IF HasJob(jobs, a) /\ PauseApplies(jobs[a])
     THEN /\ jobs' = [jobs EXCEPT ![a] = PausedJob(jobs[a], now)]
          /\ inflight' = Detach(inflight, jobs, a)
          /\ hist' = [hist EXCEPT ![a].touched = IF @ = "no" THEN "paused" ELSE @,
                                   ![a].idle = "no",
                                   ![a].pausedAt = IF jobs[a].isRunning THEN now ELSE @,
                                   ![a].frozen = <<jobs[a].currentIndex, jobs[a].countdown>>]
     ELSE /\ hist' = [hist EXCEPT ![a].idle = IF HasJob(jobs, a) THEN "pause" ELSE "missing"]
          /\ UNCHANGED <<jobs, inflight>>
  /\ UNCHANGED <<now, starts, crashed>>
  /\ UNCHANGED backend

ResumeJob(a) ==
  /\ ~crashed
  /\ IF HasJob(jobs, a) /\ ResumeApplies(jobs[a])
     THEN /\ jobs' = [jobs EXCEPT ![a] = ResumedJob(jobs[a], now)]
          /\ inflight' = Detach(inflight, jobs, a)
          /\ hist' = [hist EXCEPT ![a].idle = "no", ![a].pausedAt = Null,
                                   ![a].frozen = <<>>]
     ELSE /\ hist' = [hist EXCEPT ![a].idle = IF HasJob(jobs, a) THEN "resume" ELSE "missing"]
          /\ UNCHANGED <<jobs, inflight>>
  /\ UNCHANGED <<now, starts, crashed>>
  /\ UNCHANGED backend

StopJob(a) ==
  /\ ~crashed
  /\ IF HasJob(jobs, a)
     THEN /\ jobs' = [jobs EXCEPT ![a] = StoppedJob(jobs[a], now)]
          /\ inflight' = Detach(inflight, jobs, a)
          /\ hist' = [hist EXCEPT ![a].touched = "stopped", ![a].idle = "no",
                                   ![a].pausedAt = Null, ![a].frozen = <<>>,
                                   ![a].hot = IF Recent(jobs[a], hist[a])
                                              THEN "stopped" ELSE "no"]
     ELSE /\ hist' = [hist EXCEPT ![a].idle = "missing"]
          /\ UNCHANGED <<jobs, inflight>>
  /\ UNCHANGED <<now, starts, crashed>>
  /\ UNCHANGED backend

ClearJobForAccount(a) ==
  /\ ~crashed
  /\ jobs' = [jobs EXCEPT ![a] = NoJob]
  /\ inflight' = IF HasJob(jobs, a) THEN Detach(inflight, jobs, a) ELSE inflight
  /\ hist' = IF HasJob(jobs, a)
              THEN [hist EXCEPT ![a].touched = "cleared", ![a].idle = "no",
                                ![a].hot = "no"]
              ELSE [hist EXCEPT ![a].idle = "missing"]
  /\ UNCHANGED <<now, starts, crashed>>
  /\ UNCHANGED backend

(* variant: the append for an account without a job installs an entry    *)
(* that holds the record                                                  *)
Settle_Recreates(s, status) ==
  /\ ~crashed
  /\ s \in inflight
  /\ jobs' = [jobs EXCEPT ![s.acct] =
                IF HasJob(jobs, s.acct)
                THEN AppendedJob(@, NewResult(s, jobs, status))
                ELSE [NewJob(s.acct, <<s.email>>, 0, now) EXCEPT
                        !.isRunning = FALSE,
                        !.results = <<NewResult(s, jobs, status)>>]]
  /\ hist' = [hist EXCEPT ![s.acct].idle = "no"]
  /\ inflight' = IF HasJob(jobs, s.acct)
                 THEN Detach(inflight \ {s}, jobs, s.acct) ELSE inflight \ {s}
  /\ UNCHANGED <<now, starts, crashed>>
  /\ UNCHANGED backend

(* the gateway settles submission s: the rest of processQueueItem and its *)
(* setJobs updater.  With no entry for job.id the updater reads .results  *)
(* of undefined: the TypeError is thrown while React renders JobProvider, *)
(* no error boundary encloses it (App.tsx), the tree is unmounted and the *)
(* effect cleanup clears the interval.  Nothing runs on the map again:    *)
(* jobs keeps its last value.                                             *)
Settle(s, status) ==
  /\ ~crashed
  /\ s \in inflight
  /\ IF HasJob(jobs, s.acct)
     THEN /\ jobs' = [jobs EXCEPT ![s.acct] = AppendedJob(@, NewResult(s, jobs, status))]
          /\ hist' = [hist EXCEPT
                        ![s.acct].late =
                          @ \/ (hist[s.acct].touched = "stopped" /\ s.dgen = hist[s.acct].gen),
                        ![s.acct].idle = "no"]
          /\ inflight' = Detach(inflight \ {s}, jobs, s.acct)
          /\ UNCHANGED crashed
     ELSE /\ inflight' = inflight \ {s}
          /\ crashed' = TRUE
          /\ UNCHANGED <<jobs, hist>>
  /\ UNCHANGED <<now, starts>>
  /\ UNCHANGED backend

(* the runner's operations, for the accounts, inputs and gateway outcomes given *)
Ops(accts, raws, delays, statuses, maxStarts) ==
  \/ Tick
  \/ \E a \in accts, raw \in raws, d \in delays : StartJob(a, raw, d, maxStarts)
  \/ \E a \in accts : PauseJob(a)
  \/ \E a \in accts : ResumeJob(a)
  \/ \E a \in accts : StopJob(a)
  \/ \E a \in accts : ClearJobForAccount(a)
  \/ \E s \in inflight, st \in statuses : Settle(s, st)

(* One account, one job, at one instant of the clock.  No guard of the    *)
(* runner reads a timestamp's value (resumeJob only tests that pauseTime  *)
(* is set), so the states reached here are, timestamps aside, the states  *)
(* reached with the clock running.                                        *)
Next == Ops({"A"}, RawInputs, Delays, Statuses, MaxStarts)

Spec == Init /\ [][Next]_vars

(* One account, one job, the clock running.  No timestamp depends on the  *)
(* delay or on the gateway's outcome: delay 0, every call succeeding.     *)
NextClock == Advance(MaxTime) \/ Ops({"A"}, RawInputs, {0}, {"success"}, ClockMaxStarts)

SpecClock == Init /\ [][NextClock]_vars

(* one account, its job replaced by a later start *)
NextReplace == Ops({"A"}, RawInputs, Delays, Statuses, ReplaceMaxStarts)

SpecReplace == Init /\ [][NextReplace]_vars

(* Two accounts, every gateway call failing or never settling.  The      *)
(* interval fires every second while JobProvider is mounted: whenever a   *)
(* tick could step some job again and again, ticks keep stepping.         *)
NextDuo == Ops(Accounts, {<<"a">>}, {0}, {"error"}, DuoMaxStarts)

SpecDuo == Init /\ [][NextDuo]_vars /\ SF_vars(Tick)

(* One account, its job replaced by a later start; every job has one     *)
(* address and a delay of one second, every gateway call succeeds.        *)
NextRestart ==
  Ops({"A"}, {raw \in RawInputs : Len(EmailLists[raw]) = 1}, Delays \ {0},
      {"success"}, RestartMaxStarts)

SpecRestart == Init /\ [][NextRestart]_vars

(* one account, one job, its delay not a whole number of seconds *)
NextFraction == Ops({"A"}, RawInputs, FractionalDelays, Statuses, MaxStarts)

SpecFraction == Init /\ [][NextFraction]_vars

----------------------------------------------------------------------------
(* The backend's account store (server.js).  An account is its id and the *)
(* status of its last validation: name, siteUrl, username and appPassword *)
(* are never rewritten.  A request of validating holds the array it read  *)
(* before its await (snapshot); gone and came are kept beside it: the ids *)
(* another request deleted from, respectively added to, the file since.   *)

ValidationOutcomes == {"valid", "invalid"}

Ids(accts) == {r.id : r \in accts}

(* the requests in flight, told that id left the file *)
ToldGone(reqs, id) ==
  {[r EXCEPT !.gone = @ \cup {id}, !.came = @ \ {id}] : r \in reqs}

(* the requests in flight, told that id entered the file *)
ToldCame(reqs, id) == {[r EXCEPT !.came = @ \cup {id}] : r \in reqs}

(* POST /api/accounts: the remote check comes first, then readAccounts,   *)
(* push and writeAccounts in one synchronous run                          *)
PostAccount(status) ==
  /\ made < MaxAccounts
  /\ made' = made + 1
  /\ accounts' = accounts \cup {[id |-> made + 1, status |-> status]}
  /\ validating' = ToldCame(validating, made + 1)
  /\ UNCHANGED <<jobs, inflight, now, starts, hist, crashed>>

(* PUT /api/accounts/:id/validate, up to its await: readAccounts and the  *)
(* 404 for an id that is not there                                        *)
ValidateBegin(id) ==
  /\ Cardinality(validating) < MaxRequests
  /\ id \in Ids(accounts)
  /\ validating' = validating \cup
       {[id |-> id, snapshot |-> accounts, gone |-> {}, came |-> {}]}
  /\ UNCHANGED <<accounts, made, jobs, inflight, now, starts, hist, crashed>>

(* the array the validation writes back: the one it read before its      *)
(* await, with the validated account replaced                            *)
Revalidated(req, status) ==
  {IF r.id = req.id THEN [r EXCEPT !.status = status] ELSE r : r \in req.snapshot}

(* the remote check of req returns: accounts[accountIndex] = updated and  *)
(* writeAccounts                                                          *)
ValidateEnd(req, status) ==
  /\ req \in validating
  /\ accounts' = Revalidated(req, status)
  /\ validating' = validating \ {req}
  /\ UNCHANGED <<made, jobs, inflight, now, starts, hist, crashed>>

(* DELETE /api/accounts/:id *)
DeleteAccount(id) ==
  /\ accounts' = {r \in accounts : r.id # id}
  /\ validating' = IF id \in Ids(accounts) THEN ToldGone(validating, id) ELSE validating
  /\ UNCHANGED <<made, jobs, inflight, now, starts, hist, crashed>>

NextBackend ==
  \/ \E st \in ValidationOutcomes : PostAccount(st)
  \/ \E id \in 1..MaxAccounts : ValidateBegin(id)
  \/ \E req \in validating, st \in ValidationOutcomes : ValidateEnd(req, st)
  \/ \E id \in 1..MaxAccounts : DeleteAccount(id)

SpecBackend == Init /\ [][NextBackend]_vars

----------------------------------------------------------------------------
(* Properties *)

Results(a) == jobs[a].results

(* the submissions of account a's current job that have not settled *)
OwnInflight(a) == {s \in inflight : s.acct = a /\ s.dgen = hist[a].gen}

(* C1: every result record carries the sequence number of its dispatch:   *)
(* the submission dispatched for queue position i (0-based) yields a      *)
(* record with id i + 1.                                                   *)
C1_SequenceNumberOfDispatch ==
  \A a \in Accounts : HasJob(jobs, a) =>
    \A i \in 1..Len(Results(a)) : Results(a)[i].id = Results(a)[i].didx + 1

(* C2: a job's results hold only records of submissions that this job     *)
(* dispatched, never one of a job it replaced.                            *)
C2_NoResidualResults ==
  \A a \in Accounts : HasJob(jobs, a) =>
    \A i \in 1..Len(Results(a)) : Results(a)[i].dgen = hist[a].gen

(* C3: no sequence of operations, ticks and gateway completions makes the *)
(* runner raise an error.                                                 *)
C3_RunnerNeverRaises == ~crashed

(* C4: a job that is paused is running.                                   *)
C4_PausedOnlyWhileRunning ==
  \A a \in Accounts : HasJob(jobs, a) => (jobs[a].isPaused => jobs[a].isRunning)

(* a job with delay 0 on which no pause, stop or clear took effect *)
Undisturbed(a) ==
  HasJob(jobs, a) /\ hist[a].touched = "no" /\ jobs[a].delay = 0

(* C5, as claimed: such a job with N addresses is finished (cursor N, not  *)
(* running, finishedAt set) after exactly N ticks.                         *)
C5_FinishedAfterNTicks ==
  \A a \in Accounts :
    Undisturbed(a) /\ hist[a].steps = Len(jobs[a].emailList) =>
      /\ jobs[a].currentIndex = Len(jobs[a].emailList)
      /\ ~jobs[a].isRunning
      /\ jobs[a].endTime # Null

(* C5, amended: after k <= N ticks the cursor is k and the job still runs  *)
(* with finishedAt unset; the tick after the last dispatch, tick N + 1,    *)
(* finishes it: cursor N, not running, finishedAt set, and so it stays.    *)
C5_FinishedAfterNPlusOneTicks ==
  \A a \in Accounts : Undisturbed(a) =>
    LET N == Len(jobs[a].emailList)
        k == hist[a].steps
    IN /\ k <= N + 1
       /\ jobs[a].currentIndex = IF k <= N THEN k ELSE N
       /\ jobs[a].isRunning = (k <= N)
       /\ (jobs[a].endTime # Null) = (k = N + 1)

C5_Witness ==
  \E a \in Accounts :
    /\ Undisturbed(a)
    /\ Len(jobs[a].emailList) = 2
    /\ hist[a].steps = 3
    /\ jobs[a].currentIndex = 2
    /\ ~jobs[a].isRunning

(* record r was dispatched before record q *)
DispatchedBefore(r, q) ==
  r.dgen < q.dgen \/ (r.dgen = q.dgen /\ r.didx < q.didx)

(* every submission of account a's job was dispatched and has settled *)
AllSettled(a) ==
  /\ jobs[a].currentIndex = Len(jobs[a].emailList)
  /\ OwnInflight(a) = {}

(* C6: within one job's results the sequence numbers are pairwise         *)
(* distinct and ordered like the dispatches, and once all N submissions   *)
(* have settled they are exactly 1..N.                                     *)
C6_SequenceNumbersOrderDispatch ==
  \A a \in Accounts : HasJob(jobs, a) =>
    LET rs == Results(a) IN
    /\ \A i, j \in 1..Len(rs) : i # j => rs[i].id # rs[j].id
    /\ \A i, j \in 1..Len(rs) : DispatchedBefore(rs[i], rs[j]) => rs[i].id < rs[j].id
    /\ AllSettled(a) => {rs[i].id : i \in 1..Len(rs)} = 1..Len(jobs[a].emailList)

(* C7: the elapsed time shown for a job is exactly the clock time since   *)
(* its start during which it was running and not paused.                  *)
C7_ElapsedIsActiveTime ==
  \A a \in Accounts : HasJob(jobs, a) =>
    calculateElapsedTime(jobs[a], now) = hist[a].active

(* C8: for every job, the records in results plus its submissions still   *)
(* in flight number exactly cursor.                                       *)
C8_OneResultPerDispatch ==
  \A a \in Accounts : HasJob(jobs, a) =>
    Len(Results(a)) + Cardinality(OwnInflight(a)) = jobs[a].currentIndex

(* the submissions awaiting the gateway, whatever object they hold *)
Pending(fl) == {<<s.acct, s.dgen, s.didx, s.email>> : s \in fl}

(* C9: stop removes no in-flight submission, and a submission of a        *)
(* stopped job that settles afterwards prepends exactly one record, its   *)
(* own, to that job's results.                                            *)
C9_StopKeepsInflightResults ==
  [][ /\ \A a \in Accounts : StopJob(a) => Pending(inflight') = Pending(inflight)
      /\ \A s \in inflight, st \in Statuses :
            ( /\ HasJob(jobs, s.acct)
              /\ hist[s.acct].touched = "stopped"
              /\ s.dgen = hist[s.acct].gen
              /\ Settle(s, st) )
            => /\ HasJob(jobs', s.acct)
               /\ Len(jobs'[s.acct].results) = Len(jobs[s.acct].results) + 1
               /\ Tail(jobs'[s.acct].results) = jobs[s.acct].results
               /\ Head(jobs'[s.acct].results).didx = s.didx
               /\ Head(jobs'[s.acct].results).email = s.email
               /\ Head(jobs'[s.acct].results).status = st
    ]_vars

(* a stopped job holding a record of its own that arrived after the stop *)
C9_Witness ==
  \E a \in Accounts :
    /\ HasJob(jobs, a)
    /\ hist[a].touched = "stopped"
    /\ ~jobs[a].isRunning
    /\ hist[a].late
    /\ \E i \in 1..Len(Results(a)) : Results(a)[i].dgen = hist[a].gen

(* account a holds the job created by start number g, and no stop or     *)
(* clear has taken effect on it                                           *)
Live(a, g) ==
  HasJob(jobs, a) /\ hist[a].gen = g /\ hist[a].touched \notin {"stopped", "cleared"}

(* that job was stopped or cleared, or another start replaced it *)
Intervened(a, g) ==
  hist[a].gen # g \/ hist[a].touched \in {"stopped", "cleared"}

Finished(a, g) ==
  /\ HasJob(jobs, a) /\ hist[a].gen = g
  /\ ~jobs[a].isRunning
  /\ jobs[a].currentIndex = Len(jobs[a].emailList)
  /\ jobs[a].endTime # Null

(* C10: under fair ticking a started job that is never stopped, cleared,  *)
(* replaced or left paused forever eventually is finished, whatever the   *)
(* gateway does; with every gateway call failing all its records are      *)
(* errors and its label is Finished.                                      *)
C10_EventuallyFinished ==
  /\ \A a \in Accounts : \A g \in 1..DuoMaxStarts :
       \/ <>[](HasJob(jobs, a) /\ jobs[a].isPaused)
       \/ [](Live(a, g) => <>(Finished(a, g) \/ Intervened(a, g)))
  /\ [](\A a \in Accounts : \A g \in 1..DuoMaxStarts :
         Finished(a, g) /\ Live(a, g) =>
           /\ getJobStatusText(jobs[a]) = "Finished"
           /\ \A i \in 1..Len(Results(a)) : Results(a)[i].status = "error")

(* the submissions started for account a by the step being taken *)
NewlyDispatched(a) ==
  {s \in inflight' : s.acct = a /\ <<s.acct, s.dgen, s.didx, s.email>> \notin Pending(inflight)}

(* C11: per job, dispatch order is queue order: the k-th dispatch of a    *)
(* job submits queue[k-1], so no position is dispatched twice or skipped, *)
(* and a single tick dispatches at most one submission per job.           *)
C11_DispatchOrderIsQueueOrder ==
  /\ [](\A a \in Accounts : HasJob(jobs, a) =>
         /\ Len(hist[a].sent) <= Len(jobs[a].emailList)
         /\ \A k \in 1..Len(hist[a].sent) :
              /\ hist[a].sent[k].pos = k - 1
              /\ hist[a].sent[k].email = jobs[a].emailList[k])
  /\ [][\A a \in Accounts :
         /\ Cardinality(NewlyDispatched(a)) <= 1
         /\ \A s \in NewlyDispatched(a) :
              /\ HasJob(jobs, a)
              /\ s.dgen = hist[a].gen
              /\ s.didx = Len(hist[a].sent)
              /\ s.email = jobs[a].emailList[Len(hist[a].sent) + 1]
              /\ Len(hist'[a].sent) = Len(hist[a].sent) + 1]_vars

C11_Witness ==
  \E a \in Accounts :
    /\ HasJob(jobs, a)
    /\ Len(jobs[a].emailList) = 2
    /\ Len(hist[a].sent) = 2
    /\ hist[a].sent[2].email = <<"b">>

(* C12: pause on an already-paused job, resume on a job that is not       *)
(* paused, and pause, resume, stop or clearJobForAccount for an account   *)
(* that has no job leave the whole job map unchanged.                     *)
C12_IdleControlsChangeNothing ==
  [][\A a \in Accounts :
       /\ (PauseJob(a) /\ HasJob(jobs, a) /\ jobs[a].isPaused) => jobs' = jobs
       /\ (ResumeJob(a) /\ HasJob(jobs, a) /\ ~jobs[a].isPaused) => jobs' = jobs
       /\ ( /\ ~HasJob(jobs, a)
            /\ PauseJob(a) \/ ResumeJob(a) \/ StopJob(a) \/ ClearJobForAccount(a) )
          => jobs' = jobs
    ]_vars

(* a second pause was applied to a job paused a second earlier *)
C12_Witness ==
  \E a \in Accounts :
    /\ HasJob(jobs, a)
    /\ jobs[a].isPaused
    /\ hist[a].idle = "pause"
    /\ jobs[a].pauseTime < now

(* C13: if a running job is paused at time t1 and resumed at t2 >= t1     *)
(* with no stop or start for the account in between, the resume adds      *)
(* exactly t2 - t1 to accumulatedPauseDuration, clears paused and         *)
(* pausedAt, and changes no other field of the job.                       *)
C13_ResumeAddsPauseLength ==
  [][\A a \in Accounts :
       (ResumeJob(a) /\ HasJob(jobs, a) /\ hist[a].pausedAt # Null) =>
          /\ now >= hist[a].pausedAt
          /\ jobs' = [jobs EXCEPT ![a] =
                        [jobs[a] EXCEPT !.totalPausedTime = @ + (now - hist[a].pausedAt),
                                        !.isPaused = FALSE,
                                        !.pauseTime = Null]]
          /\ ~jobs'[a].isPaused /\ jobs'[a].pauseTime = Null
    ]_vars

(* a running job that was paused for one second and resumed *)
C13_Witness ==
  \E a \in Accounts :
    /\ HasJob(jobs, a)
    /\ jobs[a].isRunning /\ ~jobs[a].isPaused
    /\ jobs[a].pauseTime = Null
    /\ jobs[a].totalPausedTime = MsPerSecond

(* C14: stop on a job with 0 < cursor < len(queue) sets running=false,    *)
(* paused=false, pausedAt=null and finishedAt=now, leaves cursor, queue   *)
(* and results exactly as they were, and the job's status label is then   *)
(* Stopped.                                                               *)
C14_StopMidJob ==
  [][\A a \in Accounts :
       ( /\ StopJob(a)
         /\ HasJob(jobs, a)
         /\ 0 < jobs[a].currentIndex
         /\ jobs[a].currentIndex < Len(jobs[a].emailList) )
       => /\ HasJob(jobs', a)
          /\ ~jobs'[a].isRunning
          /\ ~jobs'[a].isPaused
          /\ jobs'[a].pauseTime = Null
          /\ jobs'[a].endTime = now
          /\ jobs'[a].currentIndex = jobs[a].currentIndex
          /\ jobs'[a].emailList = jobs[a].emailList
          /\ jobs'[a].results = jobs[a].results
          /\ getJobStatusText(jobs'[a]) = "Stopped"
    ]_vars

(* a job of two addresses stopped a second after its start, one dispatched *)
C14_Witness ==
  \E a \in Accounts :
    /\ HasJob(jobs, a)
    /\ hist[a].touched = "stopped"
    /\ Len(jobs[a].emailList) = 2
    /\ jobs[a].currentIndex = 1
    /\ jobs[a].endTime = now
    /\ jobs[a].startTime < now
    /\ getJobStatusText(jobs[a]) = "Stopped"

(* C15: for every job 0 <= cursor <= len(queue) holds in every reachable  *)
(* state, and no tick ever decreases cursor.                              *)
C15_CursorBoundedAndMonotonic ==
  /\ [](\A a \in Accounts : HasJob(jobs, a) =>
         /\ 0 <= jobs[a].currentIndex
         /\ jobs[a].currentIndex <= Len(jobs[a].emailList))
  /\ [][Tick => \A a \in Accounts : HasJob(jobs, a) =>
                  /\ HasJob(jobs', a)
                  /\ jobs'[a].currentIndex >= jobs[a].currentIndex]_vars

(* a job whose cursor reached the end of its queue of two, then ticked again *)
C15_Witness ==
  \E a \in Accounts :
    /\ HasJob(jobs, a)
    /\ Len(jobs[a].emailList) = 2
    /\ jobs[a].currentIndex = 2
    /\ hist[a].steps > 2

(* C16: after clearJobForAccount(A) the job map has no entry for A and    *)
(* all other entries are unchanged; a second clearJobForAccount(A)        *)
(* changes nothing; and neither a tick nor a late gateway completion      *)
(* re-creates an entry for A: it stays absent until the next start for A. *)
C16_ClearedStaysAbsent ==
  /\ [](\A a \in Accounts : hist[a].touched = "cleared" => ~HasJob(jobs, a))
  /\ [][\A a \in Accounts :
         ClearJobForAccount(a) =>
           /\ jobs' = [b \in Accounts |-> IF b = a THEN NoJob ELSE jobs[b]]
           /\ ~HasJob(jobs, a) => jobs' = jobs]_vars

(* A was cleared with a submission in flight, which then settled and      *)
(* raised, while B keeps a job that ticks have stepped                    *)
C16_Witness ==
  \E a, b \in Accounts :
    /\ a # b
    /\ hist[a].touched = "cleared"
    /\ ~HasJob(jobs, a)
    /\ crashed
    /\ HasJob(jobs, b)
    /\ hist[b].touched = "no"
    /\ hist[b].steps > 0

(* the step being taken is a startJob that installs a job for account a *)
Installs(a) == starts' = starts + 1 /\ hist'[a].gen = starts'

(* C17: start with a non-empty queue installs a fresh job with cursor 0,  *)
(* running, not paused, countdown 0, empty results and                    *)
(* accumulatedPauseDuration 0, and, if no control operation for that      *)
(* account intervenes, the very next tick dispatches queue[0].            *)
C17_FreshJobDispatchesOnNextTick ==
  [][\A a \in Accounts :
       /\ Installs(a) =>
            /\ HasJob(jobs', a)
            /\ Len(jobs'[a].emailList) > 0
            /\ jobs'[a].currentIndex = 0
            /\ jobs'[a].isRunning /\ ~jobs'[a].isPaused
            /\ jobs'[a].countdown = 0
            /\ jobs'[a].results = <<>>
            /\ jobs'[a].totalPausedTime = 0
            /\ jobs'[a].startTime = now /\ jobs'[a].endTime = Null
       /\ (Tick /\ HasJob(jobs, a) /\ hist[a].steps = 0 /\ hist[a].touched = "no") =>
            /\ \E s \in NewlyDispatched(a) :
                 s.didx = 0 /\ s.dgen = hist[a].gen /\ s.email = jobs[a].emailList[1]
            /\ jobs'[a].currentIndex = 1
    ]_vars

(* the first tick after a start with delay 1 has dispatched queue[0] *)
C17_Witness ==
  \E a \in Accounts :
    /\ HasJob(jobs, a)
    /\ hist[a].touched = "no"
    /\ hist[a].steps = 1
    /\ jobs[a].delay > 0
    /\ jobs[a].currentIndex = 1
    /\ \E s \in OwnInflight(a) : s.didx = 0 /\ s.email = jobs[a].emailList[1]

(* a text made of separators and white space only *)
Blank(raw) == \A i \in 1..Len(raw) : IsSeparator(raw[i]) \/ IsSpace(raw[i])

(* C18: start whose queueSource yields an empty queue after splitting on  *)
(* newlines, commas and semicolons, trimming and dropping empties leaves  *)
(* the job map unchanged: no job is created for the account, and a job    *)
(* that already exists for it is neither replaced nor modified.           *)
C18_EmptyStartChangesNothing ==
  [][\A a \in Accounts, raw \in {r \in RawInputs : Blank(r)}, d \in Delays :
       StartJob(a, raw, d, MaxStarts)
       => /\ jobs' = jobs
          /\ Pending(inflight') = Pending(inflight)
          /\ starts' = starts
    ]_vars

(* a start with only separators and blanks was applied to an account that *)
(* holds a job with a dispatched submission                               *)
C18_Witness ==
  \E a \in Accounts :
    /\ hist[a].idle = "start"
    /\ HasJob(jobs, a)
    /\ jobs[a].currentIndex > 0

(* C19: a tick changes a job only if it is running and not paused: for a  *)
(* paused, stopped or finished job every tick leaves cursor, countdown,   *)
(* results and all timestamps unchanged and dispatches nothing; a pause   *)
(* followed later by a resume leaves cursor and countdown at the values   *)
(* they had at the moment of the pause.                                   *)
C19_TickSkipsIdleJobs ==
  [][\A a \in Accounts :
       /\ (Tick /\ HasJob(jobs, a) /\ ~(jobs[a].isRunning /\ ~jobs[a].isPaused)) =>
            /\ jobs'[a] = jobs[a]
            /\ NewlyDispatched(a) = {}
       /\ (ResumeJob(a) /\ HasJob(jobs, a) /\ jobs[a].isPaused) =>
            /\ hist[a].frozen # <<>>
            /\ ~jobs'[a].isPaused
            /\ jobs'[a].currentIndex = hist[a].frozen[1]
            /\ jobs'[a].countdown = hist[a].frozen[2]
    ]_vars

(* a tick has just passed over a job paused in the middle of its countdown *)
C19_Witness ==
  \E a \in Accounts :
    /\ HasJob(jobs, a)
    /\ jobs[a].isRunning /\ jobs[a].isPaused
    /\ hist[a].idle = "tick"
    /\ jobs[a].currentIndex = 1
    /\ jobs[a].countdown = HalvesPerSecond

(* C20: for one job, between any two consecutive dispatches there are at  *)
(* least delaySeconds ticks on which the job was running and unpaused and *)
(* dispatched nothing, and 0 <= countdownSeconds <= delaySeconds holds in *)
(* every reachable state.                                                 *)
C20_DelayBetweenDispatches ==
  /\ [](\A a \in Accounts : HasJob(jobs, a) =>
         /\ 0 <= jobs[a].countdown
         /\ jobs[a].countdown <= jobs[a].delay)
  /\ [][\A a \in Accounts : \A s \in NewlyDispatched(a) :
         s.didx > 0 => hist[a].waited * HalvesPerSecond >= jobs[a].delay]_vars

(* C21: whenever a job is running, unpaused, with cursor == len(queue)    *)
(* and countdown 0, the next tick sets running=false and finishedAt=now   *)
(* and leaves cursor unchanged; after that no tick changes any field of   *)
(* the job.                                                               *)
C21_ExhaustedJobFinishesOnNextTick ==
  [][\A a \in Accounts :
       /\ ( /\ Tick /\ HasJob(jobs, a)
            /\ jobs[a].isRunning /\ ~jobs[a].isPaused
            /\ jobs[a].currentIndex = Len(jobs[a].emailList)
            /\ jobs[a].countdown = 0 )
          => jobs'[a] = [jobs[a] EXCEPT !.isRunning = FALSE, !.endTime = now]
       /\ ( /\ Tick /\ HasJob(jobs, a)
            /\ ~jobs[a].isRunning /\ jobs[a].endTime # Null )
          => jobs'[a] = jobs[a]
    ]_vars

(* a job with a delay of one second, finished by a tick, and a later tick *)
(* that passed over it                                                    *)
C21_Witness ==
  \E a \in Accounts :
    /\ HasJob(jobs, a)
    /\ hist[a].touched = "no"
    /\ jobs[a].delay = HalvesPerSecond
    /\ Len(jobs[a].emailList) = 2
    /\ jobs[a].currentIndex = 2
    /\ ~jobs[a].isRunning /\ jobs[a].endTime # Null
    /\ hist[a].idle = "tick"

(* C22: a result-append changes only the results list of its own job:     *)
(* cursor, countdown, running, paused, queue and all timestamps of that   *)
(* job have, right after the append, the values they had right before    *)
(* it, even when ticks or control operations ran between the dispatch and *)
(* the completion; no other account's job is touched.                     *)
C22_AppendTouchesOnlyOwnResults ==
  [][\A s \in inflight, st \in Statuses :
       (Settle(s, st) /\ HasJob(jobs, s.acct)) =>
          /\ s.dgen = hist[s.acct].gen
          /\ HasJob(jobs', s.acct)
          /\ Len(jobs'[s.acct].results) = Len(jobs[s.acct].results) + 1
          /\ jobs' = [jobs EXCEPT ![s.acct].results = <<Head(jobs'[s.acct].results)>> \o @]
    ]_vars

(* job q is job p after exactly one step of the tick at clock t *)
OneStep(p, q, t) ==
  \/ /\ p.countdown > 0
     /\ q = [p EXCEPT !.countdown = p.countdown - HalvesPerSecond]
  \/ /\ p.countdown <= 0 /\ p.currentIndex < Len(p.emailList)
     /\ q = [p EXCEPT !.currentIndex = p.currentIndex + 1, !.countdown = p.delay]
  \/ /\ p.countdown <= 0 /\ p.currentIndex >= Len(p.emailList)
     /\ q = [p EXCEPT !.isRunning = FALSE, !.endTime = t]

(* C23: pause, resume, stop, start and clearJobForAccount invoked for     *)
(* account A, and the tick's step for A's job, leave the job of every     *)
(* other account B unchanged; one tick pass steps every running, unpaused *)
(* job, each exactly once.                                                *)
C23_AccountsAreIndependent ==
  [][\A a \in Accounts :
       /\ ( \/ PauseJob(a) \/ ResumeJob(a) \/ StopJob(a) \/ ClearJobForAccount(a)
            \/ Installs(a) )
          => \A b \in Accounts \ {a} : jobs'[b] = jobs[b]
       /\ Tick =>
            IF HasJob(jobs, a) /\ jobs[a].isRunning /\ ~jobs[a].isPaused
            THEN /\ HasJob(jobs', a)
                 /\ OneStep(jobs[a], jobs'[a], now)
                 /\ hist'[a].steps = hist[a].steps + 1
            ELSE jobs'[a] = jobs[a]
    ]_vars

(* both accounts hold a job that one pass has stepped while the other ran *)
C23_Witness ==
  /\ \A a \in Accounts :
       /\ HasJob(jobs, a)
       /\ hist[a].touched = "no"
       /\ hist[a].steps = 1
       /\ jobs[a].currentIndex = 1
       /\ jobs[a].isRunning
  /\ Cardinality(inflight) = 2

(* C24: immediately after stop, and immediately after the tick that       *)
(* finishes a job, the job has paused=false and pausedAt=null.            *)
C24_StoppedOrFinishedIsNotPaused ==
  [][\A a \in Accounts :
       /\ (StopJob(a) /\ HasJob(jobs, a)) =>
            /\ HasJob(jobs', a)
            /\ ~jobs'[a].isPaused /\ jobs'[a].pauseTime = Null
       /\ (Tick /\ HasJob(jobs, a) /\ jobs[a].isRunning /\ ~jobs'[a].isRunning) =>
            /\ ~jobs'[a].isPaused /\ jobs'[a].pauseTime = Null
    ]_vars

(* a job that was paused and resumed while it ran, then finished by a tick *)
C24_Witness ==
  \E a \in Accounts :
    /\ HasJob(jobs, a)
    /\ hist[a].touched = "paused"
    /\ hist[a].steps = Len(jobs[a].emailList) + 1
    /\ jobs[a].delay = 0
    /\ ~jobs[a].isRunning /\ jobs[a].endTime # Null
    /\ jobs[a].currentIndex = Len(jobs[a].emailList)
    /\ ~jobs[a].isPaused /\ jobs[a].pauseTime = Null

(* C25: stop on a paused job adds the open pause interval                 *)
(* (now - pausedAt) to accumulatedPauseDuration before setting            *)
(* finishedAt=now, so elapsedActiveSeconds right after the stop equals    *)
(* elapsedActiveSeconds right before it.                                  *)
C25_StopFoldsOpenPause ==
  [][\A a \in Accounts :
       (StopJob(a) /\ HasJob(jobs, a) /\ jobs[a].isPaused) =>
          /\ jobs'[a].totalPausedTime = jobs[a].totalPausedTime + (now - jobs[a].pauseTime)
          /\ jobs'[a].endTime = now
          /\ calculateElapsedTime(jobs'[a], now) = calculateElapsedTime(jobs[a], now)
    ]_vars

(* the label of the table: "" for no label *)
StatusLabel(running, paused, cursor, len) ==
  IF running /\ paused THEN "Paused"
  ELSE IF running /\ ~paused THEN "Processing"
  ELSE IF cursor > 0 /\ cursor >= len THEN "Finished"
  ELSE IF 0 < cursor /\ cursor < len THEN "Stopped"
  ELSE ""

(* what a progress line presenting that label shows: the countdown to the *)
(* next submission is its way of showing Processing                      *)
LineFor(label) ==
  IF label = "" THEN <<>>
  ELSE IF label = "Processing" THEN <<"Next in">>
  ELSE <<label>>

(* C26: the status label presented for a job is, for every combination of *)
(* (running, paused, cursor, len(queue)), the one the table gives: Paused *)
(* if running and paused; Processing if running and not paused; Finished  *)
(* if not running, cursor>0 and cursor>=len(queue); Stopped if not        *)
(* running and 0<cursor<len(queue); otherwise no label.  This holds for   *)
(* the account dropdown's label and for the status shown on the           *)
(* bulk-import progress line.                                             *)
C26_StatusLabelFollowsTable ==
  \A a \in Accounts : HasJob(jobs, a) =>
    LET job == jobs[a]
        label == StatusLabel(job.isRunning, job.isPaused, job.currentIndex,
                             Len(job.emailList))
    IN /\ getJobStatusText(job) = label
       /\ progressStatusLine(job) = LineFor(label)
(* C27: once a job's finishedAt is set, by stop or by the finishing tick,  *)
(* it never changes until the job is replaced by start or removed by      *)
(* clearJobForAccount: stop invoked on a job that is already stopped or   *)
(* finished leaves finishedAt, and with it the job's elapsed time,        *)
(* unchanged.                                                             *)
C27_FinishedAtIsFinal ==
  [][\A a \in Accounts :
       ( /\ HasJob(jobs, a) /\ jobs[a].endTime # Null
         /\ HasJob(jobs', a) /\ hist'[a].gen = hist[a].gen )
       => /\ jobs'[a].endTime = jobs[a].endTime
          /\ calculateElapsedTime(jobs'[a], now') = calculateElapsedTime(jobs[a], now)
    ]_vars

(* C28: the address stored in a result record is the address that was at  *)
(* the cursor position when its submission was dispatched (queue[i] of    *)
(* the dispatching job), not the address at the cursor when the gateway   *)
(* settles, for every interleaving of ticks with completions.             *)
C28_RecordKeepsDispatchedAddress ==
  \A a \in Accounts : HasJob(jobs, a) =>
    \A i \in 1..Len(Results(a)) :
      LET r == Results(a)[i] IN
      /\ r.didx < Len(r.dq)
      /\ r.email = r.dq[r.didx + 1]
      /\ r.dgen = hist[a].gen =>
           /\ r.dq = jobs[a].emailList
           /\ r.didx < Len(hist[a].sent)
           /\ r.email = jobs[a].emailList[r.didx + 1]

(* the record of queue[0] arrived after the cursor had moved past queue[1] *)
C28_Witness ==
  \E a \in Accounts :
    /\ HasJob(jobs, a)
    /\ Len(jobs[a].emailList) = 2
    /\ \E i \in 1..Len(Results(a)) :
         /\ Results(a)[i].didx = 0
         /\ Results(a)[i].id = 3
         /\ Results(a)[i].email = <<"a">>

C30_ValidationKeepsConcurrentChanges ==
  [][\A req \in validating, st \in ValidationOutcomes :
       ValidateEnd(req, st) =>
          /\ req.gone \cap Ids(accounts') = {}
          /\ req.came \subseteq Ids(accounts')
    ]_vars

====
